---- MODULE Spec2Model ----
(***************************************************************************)
(* Model of src/leann_poc/leann_bridge.py: the LEANNBridge class.          *)
(*                                                                         *)
(* The disk (metadata descriptors, passage logs, the tree to ingest) is    *)
(* the state; index_codebase, search and _manual_grep are the operations.  *)
(* The leann library (LeannBuilder, LeannSearcher) is an external          *)
(* collaborator: every outcome it can produce is a nondeterministic input  *)
(* of the action that calls it.                                            *)
(***************************************************************************)
EXTENDS Integers, Sequences, FiniteSets, TLC

VARIABLES
    index_path,   \* self.index_path
    metaFiles,    \* the three metadata locations _manual_grep probes
    files,        \* passage-log candidates on disk, by absolute path
    root_path,    \* the directory tree index_codebase is pointed at
    rootKind,     \* "missing", "file" or "dir"
    tree,         \* entries below root_path
    pc,           \* "idle" or "done"
    call,         \* the last request
    ret           \* what the last request returned and did to its collaborators

vars == <<index_path, metaFiles, files, root_path, rootKind, tree, pc, call, ret>>

(***************************************************************************)
(* Bounds                                                                  *)
(***************************************************************************)
MaxLog == 2        \* lines in a passage log
MaxTopK == 2       \* largest top_k requested
MaxSources == 2    \* entries of passage_sources
MaxFiles == 2      \* entries below the ingestion root
MaxHits == 2       \* results the collaborator's search returns

(***************************************************************************)
(* Text, patterns and re.compile / pattern.search                          *)
(* A string is a sequence of characters.  The pattern language is the      *)
(* fragment of Python's re over literals, "." and an unbalanced "(".       *)
(***************************************************************************)
Lower(c) == IF c = "A" THEN "a" ELSE IF c = "B" THEN "b" ELSE c

\* re.compile(query, re.IGNORECASE) raises re.error on an unbalanced "("
Compiles(query) == \A i \in 1..Len(query) : query[i] # "("

CharMatch(p, c) == p = "." \/ Lower(p) = Lower(c)

\* pattern.search(content): some substring of content matches
PatternSearch(query, content) ==
    \E i \in 0..(Len(content) - Len(query)) :
        \A j \in 1..Len(query) : CharMatch(query[j], content[i + j])

Queries == { <<>>, <<"a">>, <<"B">>, <<"a", "b">>, <<".">>, <<"z">>, <<"(">>, <<"a", "(">> }

(***************************************************************************)
(* JSON values of a log record's fields                                    *)
(***************************************************************************)
None == [k |-> "none", s |-> <<>>]            \* key absent (record.get gives None)
Num == [k |-> "num", s |-> <<>>]              \* a truthy non-string value
Str(s) == [k |-> "str", s |-> s]

Truthy(v) == v.k = "num" \/ (v.k = "str" /\ v.s # <<>>)

\* a or b, Python's short-circuit or
PyOr(a, b) == IF Truthy(a) THEN a ELSE b

Texts == { <<"a">>, <<"A", "b">>, <<"b">> }

Garbage == [kind |-> "garbage", text |-> None, content |-> None, metadata |-> "none"]
ListLine == [kind |-> "list", text |-> None, content |-> None, metadata |-> "none"]
Obj(t, c, m) == [kind |-> "obj", text |-> t, content |-> c, metadata |-> m]

\* the lines a passage log can hold
Lines ==
    {Garbage, ListLine}
    \cup { Obj(t, None, m) : t \in {None, Str(<<>>), Num} \cup { Str(s) : s \in Texts },
                             m \in {"none", "m1"} }
    \cup { Obj(t, Str(s), "m2") : t \in {None, Str(<<>>)}, s \in {<<"a">>, <<"b">>} }

SeqsUpTo(S, n) == UNION { [1..k -> S] : k \in 0..n }

Logs == SeqsUpTo(Lines, MaxLog)

(***************************************************************************)
(* Paths (pathlib.Path)                                                    *)
(***************************************************************************)
Rel(parts) == [abs |-> FALSE, parts |-> parts]
Abs(parts) == [abs |-> TRUE, parts |-> parts]

cwd == <<"w">>

\* a / b : an absolute right operand replaces the left one
Join(a, b) == IF b.abs THEN b ELSE [abs |-> a.abs, parts |-> a.parts \o b.parts]

Parent(a) ==
    IF a.parts = <<>> THEN a
    ELSE [abs |-> a.abs, parts |-> SubSeq(a.parts, 1, Len(a.parts) - 1)]

\* what the operating system resolves a path to
Resolve(p) == IF p.abs THEN p.parts ELSE cwd \o p.parts

NoFile == [kind |-> "nofile", lines |-> <<>>]
Unreadable == [kind |-> "unreadable", lines |-> <<>>]   \* a directory, or no read permission
LogFile(lines) == [kind |-> "file", lines |-> lines]

FileAt(p) == IF Resolve(p) \in DOMAIN files THEN files[Resolve(p)] ELSE NoFile

\* Path.exists()
Exists(p) == FileAt(p).kind # "nofile"

IndexPaths == { Rel(<<"ix">>), Abs(<<"d", "ix">>) }

\* every place a passage path "p" can resolve to
LogPaths == { <<"w", "p">>, <<"w", "ix", "p">>, <<"d", "p">>, <<"d", "ix", "p">>, <<"p">> }

(***************************************************************************)
(* Metadata descriptors                                                    *)
(***************************************************************************)
NoPath == [k |-> "none", p |-> Rel(<<>>)]          \* "path" absent or empty
PathOf(p) == [k |-> "path", p |-> p]

Source(t, p) == [type |-> t, path |-> p]

Sources ==
    { Source("other", PathOf(Rel(<<"p">>))), Source("jsonl", NoPath),
      Source("jsonl", PathOf(Rel(<<"p">>))), Source("jsonl", PathOf(Abs(<<"p">>))) }

NoMeta == [kind |-> "nofile", has_sources |-> FALSE, passage_sources |-> <<>>]
Corrupt == [kind |-> "corrupt", has_sources |-> FALSE, passage_sources |-> <<>>]
Meta(srcs) == [kind |-> "meta", has_sources |-> TRUE, passage_sources |-> srcs]
MetaNoKey == [kind |-> "meta", has_sources |-> FALSE, passage_sources |-> <<>>]

MetaContents == {Corrupt, MetaNoKey} \cup { Meta(s) : s \in SeqsUpTo(Sources, MaxSources) }

\* the directory of the metadata file at each probed location
MetaDir(loc) == IF loc = 1 THEN Parent(index_path) ELSE index_path

(***************************************************************************)
(* Result entries                                                          *)
(***************************************************************************)
\* {"error": msg}; the tag is the fixed part of the message
Err(tag) == [kind |-> "error", error |-> tag, content |-> <<>>, metadata |-> "{}", score |-> 0]

\* {"content": ..., "metadata": ..., "score": ...}
Hit(content, metadata, score) ==
    [kind |-> "hit", error |-> "", content |-> content, metadata |-> metadata, score |-> score]

E_MetaNotFound == "Grep failed: Metadata not found"
E_NoJsonlSource == "Grep failed: No jsonl passage source found in metadata"
E_PassageFileNotFound == "Grep failed: Passage file not found"
E_InvalidRegex == "Invalid regex pattern"
E_ManualGrepFailed == "Manual grep fallback failed"
E_SearchFailed == "Search failed"
E_RecomputeServer == "Search failed because the index is compact/pruned and the recompute server could not start. Please RE-INDEX"
E_PathDoesNotExist == "Path does not exist"
E_BuildFailed == "Failed to build index"

\* the score of every exact match, 1.0
GrepScore == 1

(***************************************************************************)
(* _manual_grep                                                            *)
(***************************************************************************)
\* lines 233-238: the metadata location settled on (it may still not exist)
FindMeta ==
    IF metaFiles[1].kind # "nofile" THEN 1
    ELSE IF metaFiles[2].kind # "nofile" THEN 2
    ELSE 3

\* lines 246-251: the path of the first source of type jsonl
RECURSIVE FirstJsonlPath(_, _)
FirstJsonlPath(srcs, i) ==
    IF i > Len(srcs) THEN NoPath
    ELSE IF srcs[i].type = "jsonl" THEN srcs[i].path
    ELSE FirstJsonlPath(srcs, i + 1)

\* a resolution that tries the path as given before the metadata's directory
ResolvePassFile_AsGivenFirst(meta_dir, passage_path) ==
    IF Exists(passage_path) THEN passage_path ELSE Join(meta_dir, passage_path)

\* lines 258-266: the candidate the resolution settles on
ResolvePassFile(meta_dir, passage_path) ==
    LET first == Join(meta_dir, passage_path)
        second == IF ~Exists(first) THEN passage_path ELSE first
        third == IF ~Exists(second) /\ ~passage_path.abs THEN passage_path ELSE second
    IN third

\* lines 277-296: the scan of the log, from line i on
RECURSIVE Scan(_, _, _, _, _)
Scan(lines, i, query, top_k, results) ==
    IF i > Len(lines) THEN [results |-> results, read |-> Len(lines)]
    ELSE
        LET line == lines[i]
            content == PyOr(PyOr(line.text, line.content), Str(<<>>))
        IN
        IF line.kind # "obj" \/ content.k # "str"
        THEN Scan(lines, i + 1, query, top_k, results)      \* except: continue
        ELSE IF PatternSearch(query, content.s)
        THEN
            LET metadata == IF line.metadata = "none" THEN "{}" ELSE line.metadata
                grown == Append(results, Hit(content.s, metadata, GrepScore))
            IN IF Len(grown) >= top_k
               THEN [results |-> grown, read |-> i]
               ELSE Scan(lines, i + 1, query, top_k, grown)
        ELSE Scan(lines, i + 1, query, top_k, results)

GrepRet(out, opened, read) == [out |-> out, opened |-> opened, read |-> read]

\* a fallback that reports a missing log as "no results"
PassageFileNotFound_Empty == GrepRet(<<>>, <<>>, 0)

\* line 269
PassageFileNotFound == GrepRet(<<Err(E_PassageFileNotFound)>>, <<>>, 0)

\* a fallback that opens the log before it compiles the pattern
ScanLog_OpenFirst(pass_file, query, top_k) ==
    IF FileAt(pass_file).kind = "unreadable"
    THEN GrepRet(<<Err(E_ManualGrepFailed)>>, <<>>, 0)
    ELSE IF ~Compiles(query) THEN GrepRet(<<Err(E_InvalidRegex)>>, <<>>, 0)
    ELSE
        LET scan == Scan(FileAt(pass_file).lines, 1, query, top_k, <<>>)
        IN GrepRet(scan.results, Resolve(pass_file), scan.read)

\* lines 271-302: compile the pattern, then open and scan the log found
ScanLog(pass_file, query, top_k) ==
    IF ~Compiles(query) THEN GrepRet(<<Err(E_InvalidRegex)>>, <<>>, 0)
    ELSE IF FileAt(pass_file).kind = "unreadable"
    THEN GrepRet(<<Err(E_ManualGrepFailed)>>, <<>>, 0)
    ELSE
        LET scan == Scan(FileAt(pass_file).lines, 1, query, top_k, <<>>)
        IN GrepRet(scan.results, Resolve(pass_file), scan.read)

\* _manual_grep(query, top_k): the list returned, the log opened and the lines read
_manual_grep(query, top_k) ==
    LET loc == FindMeta
        meta == metaFiles[loc]
    IN
    IF meta.kind = "nofile" THEN GrepRet(<<Err(E_MetaNotFound)>>, <<>>, 0)
    ELSE IF meta.kind = "corrupt" THEN GrepRet(<<Err(E_ManualGrepFailed)>>, <<>>, 0)
    ELSE
        LET passage_path ==
                IF meta.has_sources THEN FirstJsonlPath(meta.passage_sources, 1) ELSE NoPath
        IN
        IF passage_path.k = "none" THEN GrepRet(<<Err(E_NoJsonlSource)>>, <<>>, 0)
        ELSE
            LET pass_file == ResolvePassFile(MetaDir(loc), passage_path.p)
            IN
            IF ~Exists(pass_file) THEN PassageFileNotFound
            ELSE ScanLog(pass_file, query, top_k)

(***************************************************************************)
(* The LeannSearcher collaborator                                          *)
(***************************************************************************)
M_MissingJsonl == "No .jsonl passages file found"
M_ServerDown == "embedding server failed to start"
M_Other == "index file is truncated"

\* str(e) of the exceptions the collaborator raises
Msgs == {M_MissingJsonl, M_ServerDown, M_Other}

\* a test that takes every failure for a missing passages file
MentionsMissingJsonl_Any(msg) == TRUE

\* "No .jsonl passages file found" in str(e)
MentionsMissingJsonl(msg) == msg = M_MissingJsonl

\* the value of a metadata flag: "absent", "true" or "false"
Flags == {"absent", "true", "false"}

\* searcher.meta_data.get(flag, False)
MetaDataGet(flag) == flag = "true"

LibRec(construct, is_pruned, is_compact, srch, hits, format) ==
    [construct |-> construct, is_pruned |-> is_pruned, is_compact |-> is_compact,
     search |-> srch, hits |-> hits, format |-> format]

\* what the collaborator does during one request: "ok" or the message it raises with
\* at construction, at search and while its results are read
Libs ==
    { LibRec(m, "absent", "absent", "ok", 0, "ok") : m \in Msgs }
    \cup { LibRec("ok", p, c, m, 0, "ok") : p \in Flags, c \in Flags, m \in Msgs }
    \cup { LibRec("ok", p, c, "ok", n, f) :
               p \in Flags, c \in Flags, n \in 0..MaxHits, f \in {"ok"} \cup Msgs }

\* lines 214-220: the collaborator's results, formatted
FormatResults(n) == [i \in 1..n |-> Hit(<<"h">>, "m1", 7)]

NoCall == [called |-> FALSE, query |-> <<>>, top_k |-> 0, metadata_filters |-> "none",
           use_grep |-> FALSE, recompute_embeddings |-> FALSE]

SearchCall(query, top_k, metadata_filters, use_grep, recompute) ==
    [called |-> TRUE, query |-> query, top_k |-> top_k, metadata_filters |-> metadata_filters,
     use_grep |-> use_grep, recompute_embeddings |-> recompute]

(***************************************************************************)
(* search                                                                  *)
(***************************************************************************)
\* how a block ends: it returns a list or raises
Outcome(raised, msg, out, grepCalls, constructed, searcherCall) ==
    [raised |-> raised, msg |-> msg, out |-> out, grepCalls |-> grepCalls,
     constructed |-> constructed, searcherCall |-> searcherCall]

\* a planner that forgets compact indices
RecomputeRequired_PrunedOnly(is_pruned, is_compact) == MetaDataGet(is_pruned)

\* line 190
RecomputeRequired(is_pruned, is_compact) == MetaDataGet(is_pruned) \/ MetaDataGet(is_compact)

\* a handler that blames the recompute server before it looks at the message
SearchErrHandler_RecomputeFirst(query, top_k, use_grep, recompute_required, search_err, searcherCall) ==
    IF recompute_required
    THEN Outcome(FALSE, "", <<Err(E_RecomputeServer)>>, 0, TRUE, searcherCall)
    ELSE IF use_grep /\ MentionsMissingJsonl(search_err)
    THEN Outcome(FALSE, "", _manual_grep(query, top_k).out, 1, TRUE, searcherCall)
    ELSE Outcome(TRUE, search_err, <<>>, 0, TRUE, searcherCall)

\* lines 203-211: the handler of a failed searcher.search
SearchErrHandler(query, top_k, use_grep, recompute_required, search_err, searcherCall) ==
    IF use_grep /\ MentionsMissingJsonl(search_err)
    THEN Outcome(FALSE, "", _manual_grep(query, top_k).out, 1, TRUE, searcherCall)
    ELSE IF recompute_required
    THEN Outcome(FALSE, "", <<Err(E_RecomputeServer)>>, 0, TRUE, searcherCall)
    ELSE Outcome(TRUE, search_err, <<>>, 0, TRUE, searcherCall)

\* lines 182-222: the body of the outer try
SearchTry(query, top_k, metadata_filters, use_grep, lib) ==
    IF lib.construct # "ok" THEN Outcome(TRUE, lib.construct, <<>>, 0, TRUE, NoCall)
    ELSE
        LET recompute_required == RecomputeRequired(lib.is_pruned, lib.is_compact)
            searcherCall ==
                SearchCall(query, top_k, metadata_filters, use_grep, recompute_required)
        IN
        IF lib.search # "ok"
        THEN SearchErrHandler(query, top_k, use_grep, recompute_required, lib.search,
                              searcherCall)
        ELSE IF lib.format # "ok" THEN Outcome(TRUE, lib.format, <<>>, 0, TRUE, searcherCall)
        ELSE Outcome(FALSE, "", FormatResults(lib.hits), 0, TRUE, searcherCall)

\* a search without its outer handler
SearchExcept_Reraise(query, top_k, use_grep, o) == o

\* lines 224-227: the outer handler
SearchExcept(query, top_k, use_grep, o) ==
    IF ~o.raised THEN o
    ELSE IF use_grep /\ MentionsMissingJsonl(o.msg)
    THEN Outcome(FALSE, "", _manual_grep(query, top_k).out, o.grepCalls + 1,
                 o.constructed, o.searcherCall)
    ELSE Outcome(FALSE, "", <<Err(E_SearchFailed)>>, o.grepCalls, o.constructed,
                 o.searcherCall)

\* search(query, top_k, metadata_filters, use_grep)
search(query, top_k, metadata_filters, use_grep, lib) ==
    SearchExcept(query, top_k, use_grep,
                 SearchTry(query, top_k, metadata_filters, use_grep, lib))

(***************************************************************************)
(* index_codebase                                                          *)
(* A path component is a sequence of tokens, "." being a token of its own. *)
(***************************************************************************)
\* lines 79 and 81
DefaultExtensions ==
    { <<".", "swift">>, <<".", "py">>, <<".", "js">>, <<".", "ts">>, <<".", "md">>,
      <<".", "json">>, <<".", "csv">>, <<".", "yaml">>, <<".", "yml">>, <<".", "txt">> }
DefaultExcludeDirs ==
    { <<"build">>, <<".", "build">>, <<"node_modules">>, <<"venv">>, <<".", "git">> }

\* the position of the last "." of a name, 0 when there is none
LastDot(name) ==
    IF \E i \in 1..Len(name) : name[i] = "."
    THEN CHOOSE i \in 1..Len(name) :
             name[i] = "." /\ \A j \in (i + 1)..Len(name) : name[j] # "."
    ELSE 0

\* PurePath.suffix
Suffix(name) ==
    LET i == LastDot(name)
    IN IF 1 < i /\ i < Len(name) THEN SubSeq(name, i, Len(name)) ELSE <<>>

\* not content.strip()
StripIsEmpty(content) == \A i \in 1..Len(content) : content[i] = " "

InParts(c, parts) == \E i \in 1..Len(parts) : parts[i] = c

Entry(dirs, name, kind, content, faulty) ==
    [dirs |-> dirs, name |-> name, kind |-> kind, content |-> content, faulty |-> faulty]

\* Path.parts of an entry found by root.rglob('*')
PartsOf(root, e) == root.parts \o e.dirs \o <<e.name>>

\* file_path.relative_to(root)
RelPath(e) == e.dirs \o <<e.name>>

Passage(e) == [file_path |-> RelPath(e), file_extension |-> Suffix(e.name),
               file_name |-> e.name, text |-> e.content]

\* lines 102-144: the walk over the entries, in the order rglob yields them
RECURSIVE Walk(_, _, _, _, _, _)
Walk(root, order, i, extensions, exclude_dirs, acc) ==
    IF i > Len(order) THEN acc
    ELSE
        LET e == order[i]
            skip == Walk(root, order, i + 1, extensions, exclude_dirs, acc)
        IN
        IF e.kind # "file" THEN skip
        ELSE IF \E exc \in exclude_dirs : InParts(exc, PartsOf(root, e)) THEN skip
        ELSE IF Suffix(e.name) \notin extensions THEN skip
        ELSE IF e.faulty
        THEN Walk(root, order, i + 1, extensions, exclude_dirs,
                  [acc EXCEPT !.errors = Append(@, RelPath(e))])
        ELSE IF StripIsEmpty(e.content) THEN skip
        ELSE Walk(root, order, i + 1, extensions, exclude_dirs,
                  [acc EXCEPT !.added = Append(@, Passage(e)),
                              !.indexed_files = @ + 1])

NoExtensions == {<<"default">>}    \* extensions=None
NoExcludeDirs == {<<"default">>}   \* exclude_dirs=None

IndexRet(error, success, indexed_files, errors, added, builderCreated, buildAttempted) ==
    [error |-> error, success |-> success, indexed_files |-> indexed_files,
     errors |-> errors, added |-> added, builderCreated |-> builderCreated,
     buildAttempted |-> buildAttempted]

\* index_codebase(root_path, extensions, exclude_dirs); entries are the entries below
\* the root in the order rglob yields them, build_ok whether builder.build_index succeeds
index_codebase(root, kind, entries, extensions_arg, exclude_dirs_arg, build_ok) ==
    LET extensions ==
            IF extensions_arg = NoExtensions THEN DefaultExtensions ELSE extensions_arg
        exclude_dirs ==
            IF exclude_dirs_arg = NoExcludeDirs THEN DefaultExcludeDirs ELSE exclude_dirs_arg
    IN
    IF kind = "missing"
    THEN IndexRet(E_PathDoesNotExist, FALSE, 0, <<>>, <<>>, FALSE, FALSE)
    ELSE
        LET order == IF kind = "dir" THEN entries ELSE <<>>   \* rglob of a plain file is empty
            acc == Walk(root, order, 1, extensions, exclude_dirs,
                        [added |-> <<>>, errors |-> <<>>, indexed_files |-> 0])
        IN
        IF build_ok
        THEN IndexRet("", TRUE, acc.indexed_files, acc.errors, acc.added, TRUE, TRUE)
        ELSE IndexRet(E_BuildFailed, FALSE, 0, <<>>, acc.added, TRUE, TRUE)

(***************************************************************************)
(* Inputs                                                                  *)
(***************************************************************************)
TopKs == (0 - 1)..MaxTopK

Filters == {"none", "file_extension == .py"}

IngestRoots == { Rel(<< <<"proj">> >>), Rel(<< <<"build">>, <<"proj">> >>) }

EntryDirs == { <<>>, << <<"src">> >>, << <<"build">> >> }
EntryNames == { <<"a", ".", "py">>, <<"b", ".", "md">>, <<"build">> }
Contents == { <<>>, <<" ">>, <<" ", "x">> }

Entries ==
    { Entry(d, n, "dir", <<>>, FALSE) : d \in EntryDirs, n \in EntryNames }
    \cup { Entry(d, n, "file", <<>>, TRUE) : d \in EntryDirs, n \in EntryNames }
    \cup { Entry(d, n, "file", c, FALSE) : d \in EntryDirs, n \in EntryNames, c \in Contents }

\* a directory holds one entry per path
RECURSIVE TreesOf(_)
TreesOf(n) ==
    IF n = 0 THEN {{}}
    ELSE LET smaller == TreesOf(n - 1)
         IN smaller \cup
            UNION { { t \cup {e} :
                        e \in { x \in Entries : \A y \in t : RelPath(x) # RelPath(y) } } :
                    t \in smaller }

Trees == TreesOf(MaxFiles)

\* the orders in which rglob can yield a set of entries
Orders(t) ==
    { o \in [1..Cardinality(t) -> t] : \A i, j \in 1..Cardinality(t) : o[i] = o[j] => i = j }

ExtensionArgs == { NoExtensions, {<<".", "py">>}, {<<>>, <<".", "md">>} }
ExcludeArgs == { NoExcludeDirs, {}, {<<"src">>} }

(***************************************************************************)
(* Initial states                                                          *)
(***************************************************************************)
NoCallYet == [op |-> "none"]

Idle == pc = "idle" /\ call = NoCallYet /\ ret = NoCallYet

NoIndex ==
    /\ index_path = Rel(<<"ix">>)
    /\ metaFiles = [l \in 1..3 |-> NoMeta]
    /\ files = [p \in LogPaths |-> NoFile]

NoTree == root_path = Rel(<< <<"proj">> >>) /\ rootKind = "missing" /\ tree = {}

JsonlRel == Meta(<<Source("jsonl", PathOf(Rel(<<"p">>)))>>)
JsonlAbs == Meta(<<Source("jsonl", PathOf(Abs(<<"p">>)))>>)

LogA == LogFile(<<Obj(Str(<<"a">>), None, "m1")>>)
LogB == LogFile(<<Obj(Str(<<"b">>), None, "none"), Obj(Str(<<"A", "b">>), None, "m1")>>)

\* the places a passage path can resolve to, given the index path
Reachable(ip) ==
    IF ip.abs THEN { <<"d", "p">>, <<"d", "ix", "p">>, <<"w", "p">>, <<"p">> }
    ELSE { <<"w", "p">>, <<"w", "ix", "p">>, <<"p">> }

\* an index built at the default place, with any passage log
InitScan ==
    /\ index_path = Rel(<<"ix">>)
    /\ metaFiles = [l \in 1..3 |-> IF l = 1 THEN JsonlRel ELSE NoMeta]
    /\ \E log \in Logs :
           files = [p \in LogPaths |-> IF p = <<"w", "p">> THEN LogFile(log) ELSE NoFile]

\* any placement of the metadata and of the logs it can resolve to
InitResolve ==
    /\ index_path \in IndexPaths
    /\ metaFiles \in [1..3 -> {NoMeta, JsonlRel, JsonlAbs}]
    /\ files \in [LogPaths -> {NoFile, Unreadable, LogA, LogB}]
    /\ \A p \in LogPaths \ Reachable(index_path) : files[p] = NoFile

\* any metadata content
InitMeta ==
    /\ index_path \in IndexPaths
    /\ \E at \in SUBSET (1..3), m \in MetaContents :
           metaFiles = [l \in 1..3 |-> IF l \in at THEN m ELSE NoMeta]
    /\ \E f \in {NoFile, LogB} : files = [p \in LogPaths |-> f]

InitGrep == (InitScan \/ InitResolve \/ InitMeta) /\ NoTree /\ Idle

InitIngest ==
    /\ NoIndex
    /\ root_path \in IngestRoots
    /\ rootKind \in {"missing", "file", "dir"}
    /\ tree \in Trees
    /\ rootKind # "dir" => tree = {}
    /\ Idle

Init ==
    /\ index_path = Rel(<<"ix">>)
    /\ metaFiles \in [1..3 -> {NoMeta, Corrupt, JsonlRel}]
    /\ metaFiles[2] = NoMeta /\ metaFiles[3] = NoMeta
    /\ \E f \in {NoFile, Unreadable, LogA, LogB} :
           files = [p \in LogPaths |-> IF p = <<"w", "p">> THEN f ELSE NoFile]
    /\ root_path = Rel(<< <<"proj">> >>)
    /\ rootKind = "dir"
    /\ tree = { Entry(<<>>, <<"a", ".", "py">>, "file", <<" ", "x">>, FALSE) }
    /\ Idle

(***************************************************************************)
(* Actions: one request per invocation of the bridge                       *)
(***************************************************************************)
disk == <<index_path, metaFiles, files, root_path, rootKind, tree>>

\* bridge.search(query, top_k, metadata_filters, use_grep)
Search ==
    /\ pc = "idle"
    /\ \E query \in Queries, top_k \in TopKs, metadata_filters \in Filters,
          use_grep \in BOOLEAN, lib \in Libs :
           /\ call' = [op |-> "search", query |-> query, top_k |-> top_k,
                       metadata_filters |-> metadata_filters, use_grep |-> use_grep,
                       lib |-> lib]
           /\ ret' = search(query, top_k, metadata_filters, use_grep, lib)
    /\ pc' = "done"
    /\ UNCHANGED disk

\* self._manual_grep(query, top_k)
ManualGrep ==
    /\ pc = "idle"
    /\ \E query \in Queries, top_k \in TopKs :
           /\ call' = [op |-> "grep", query |-> query, top_k |-> top_k]
           /\ ret' = _manual_grep(query, top_k)
    /\ pc' = "done"
    /\ UNCHANGED disk

\* bridge.index_codebase(root_path, extensions, exclude_dirs)
IndexCodebase ==
    /\ pc = "idle"
    /\ \E extensions \in ExtensionArgs, exclude_dirs \in ExcludeArgs,
          order \in Orders(tree), build_ok \in BOOLEAN :
           /\ call' = [op |-> "index", extensions |-> extensions,
                       exclude_dirs |-> exclude_dirs]
           /\ ret' = index_codebase(root_path, rootKind, order, extensions, exclude_dirs,
                                    build_ok)
    /\ pc' = "done"
    /\ UNCHANGED disk

\* the process exits; the next invocation starts afresh on the same disk
NextInvocation ==
    /\ pc = "done"
    /\ pc' = "idle"
    /\ call' = NoCallYet
    /\ ret' = NoCallYet
    /\ UNCHANGED disk

Next == Search \/ ManualGrep \/ IndexCodebase \/ NextInvocation
NextGrep == ManualGrep \/ NextInvocation
NextIngest == IndexCodebase \/ NextInvocation

Spec == Init /\ [][Next]_vars
SpecGrep == InitGrep /\ [][NextGrep]_vars
SpecIngest == InitIngest /\ [][NextIngest]_vars

(***************************************************************************)
(* Properties                                                              *)
(***************************************************************************)
Done(op) == pc = "done" /\ call.op = op

\* the message the primary path (construction, search, reading the results) failed with
FailureMsg(lib) ==
    IF lib.construct # "ok" THEN lib.construct
    ELSE IF lib.search # "ok" THEN lib.search
    ELSE lib.format

PrimaryFailed(lib) == FailureMsg(lib) # "ok"

SingleError(out) == Len(out) = 1 /\ out[1].kind = "error"

\* the fallback, had it been run for the request in call
Fallback == _manual_grep(call.query, call.top_k)

\* C1: search never lets an exception out, and when the search subsystem fails (the
\* primary path fails and no fallback scan takes its place) it returns one error entry
C1_SearchNeverRaises ==
    Done("search") =>
        /\ ~ret.raised
        /\ (PrimaryFailed(call.lib) /\ (ret.grepCalls = 0 \/ Fallback.opened = <<>>))
               => SingleError(ret.out)

C1_Witness ==
    /\ Done("search")
    /\ call.use_grep
    /\ call.lib.search = M_MissingJsonl
    /\ ret.grepCalls = 1
    /\ ret.out = <<Err(E_MetaNotFound)>>

\* C2 as stated: a request with use_grep never reaches the collaborator and returns
\* the fallback's result
C2_Original ==
    (Done("search") /\ call.use_grep) =>
        /\ ~ret.constructed
        /\ ~ret.searcherCall.called
        /\ ret.out = Fallback.out

\* C2 amended: a request with use_grep is handed to the collaborator with use_grep set;
\* the fallback runs exactly when the primary path fails with the missing-jsonl message,
\* and its result is then the result of the request
C2_GrepGoesThroughCollaborator ==
    (Done("search") /\ call.use_grep) =>
        /\ ret.constructed
        /\ call.lib.construct = "ok" => (ret.searcherCall.called /\ ret.searcherCall.use_grep)
        /\ ret.grepCalls = (IF FailureMsg(call.lib) = M_MissingJsonl THEN 1 ELSE 0)
        /\ ret.grepCalls = 1 => ret.out = Fallback.out
        /\ (~PrimaryFailed(call.lib)) => ret.out = FormatResults(call.lib.hits)

C2_Witness ==
    /\ Done("search")
    /\ call.use_grep
    /\ ~PrimaryFailed(call.lib)
    /\ ret.searcherCall.use_grep
    /\ Len(ret.out) = MaxHits
    /\ ret.out # Fallback.out

\* C3 as stated: a missing-log failure escalates to the fallback whatever use_grep is
C3_Original ==
    Done("search") =>
        /\ FailureMsg(call.lib) = M_MissingJsonl => ret.grepCalls = 1
        /\ (PrimaryFailed(call.lib) /\ FailureMsg(call.lib) # M_MissingJsonl)
               => (ret.grepCalls = 0 /\ SingleError(ret.out))

\* C3 amended: a missing-log failure escalates to the fallback, run once, when use_grep
\* is set, Full or Degraded; every other failure of the primary path, a missing-log
\* failure without use_grep included, is one error entry and the fallback is not run
C3_EscalationOnlyWithGrep ==
    Done("search") =>
        /\ (call.use_grep /\ FailureMsg(call.lib) = M_MissingJsonl)
               => (ret.grepCalls = 1 /\ ret.out = Fallback.out)
        /\ (PrimaryFailed(call.lib) /\ ~(call.use_grep /\ FailureMsg(call.lib) = M_MissingJsonl))
               => (ret.grepCalls = 0 /\ SingleError(ret.out))

C3_Witness ==
    /\ Done("search")
    /\ call.use_grep
    /\ call.lib.is_compact = "true"
    /\ call.lib.search = M_MissingJsonl
    /\ ret.grepCalls = 1
    /\ Len(ret.out) = 2
    /\ ret.out[1].kind = "hit"

\* C4: the collaborator is asked for recompute exactly when is_pruned or is_compact is
\* true, and a recompute failure of such a search is reported as the re-index error
C4_RecomputeDispatch ==
    (Done("search") /\ call.lib.construct = "ok") =>
        /\ ret.searcherCall.called
        /\ ret.searcherCall.recompute_embeddings
               = (call.lib.is_pruned = "true" \/ call.lib.is_compact = "true")
        /\ (ret.searcherCall.recompute_embeddings /\ call.lib.search = M_ServerDown)
               => ret.out = <<Err(E_RecomputeServer)>>

C4_Witness ==
    /\ Done("search")
    /\ call.lib.is_pruned = "true"
    /\ call.lib.is_compact = "absent"
    /\ call.lib.search = M_ServerDown
    /\ ret.searcherCall.recompute_embeddings
    /\ ret.out = <<Err(E_RecomputeServer)>>

(***************************************************************************)
(* Properties of _manual_grep                                              *)
(***************************************************************************)
\* the metadata descriptor the fallback reads, and the passage path it names
ChosenMeta == metaFiles[FindMeta]
ChosenPath ==
    IF ChosenMeta.kind = "meta" /\ ChosenMeta.has_sources
    THEN FirstJsonlPath(ChosenMeta.passage_sources, 1)
    ELSE NoPath

\* the candidates of the resolution, in the order of the claim
Candidate1 == Join(MetaDir(FindMeta), ChosenPath.p)    \* below the metadata's directory
Candidate2 == ChosenPath.p                             \* as an absolute path
Candidate3 == ChosenPath.p                             \* as given, below the working directory

OnDisk(p) == Resolve(p) \in DOMAIN files /\ files[Resolve(p)].kind # "nofile"

FirstExisting ==
    IF OnDisk(Candidate1) THEN Resolve(Candidate1)
    ELSE IF OnDisk(Candidate2) THEN Resolve(Candidate2)
    ELSE IF OnDisk(Candidate3) THEN Resolve(Candidate3)
    ELSE <<>>

\* the metadata was found and read and the log it names exists
LogLocated == ChosenPath.k = "path" /\ FirstExisting # <<>>

LogReadable == LogLocated /\ files[FirstExisting].kind = "file"

\* the text of a record: its "text" field, else its "content" field, else ""
TextOf(line) ==
    IF Truthy(line.text) THEN line.text
    ELSE IF Truthy(line.content) THEN line.content
    ELSE Str(<<>>)

\* a parseable record whose text matches the pattern
Matching(line, query) ==
    /\ line.kind = "obj"
    /\ TextOf(line).k = "str"
    /\ PatternSearch(query, TextOf(line).s)

MatchingLines(lines, query) == SelectSeq(lines, LAMBDA l : Matching(l, query))

HitOf(line) ==
    Hit(TextOf(line).s, IF line.metadata = "none" THEN "{}" ELSE line.metadata, 1)

Min(a, b) == IF a < b THEN a ELSE b

\* C5 as stated: a scan returns the first min(n, top_k) matching records, in log order,
\* each with score 1.0, for every top_k >= 0
C5_Claim ==
    (Done("grep") /\ LogReadable /\ Compiles(call.query) /\ call.top_k >= 0) =>
        LET matches == MatchingLines(files[FirstExisting].lines, call.query)
        IN /\ Len(ret.out) = Min(Len(matches), call.top_k)
           /\ \A i \in 1..Len(ret.out) : ret.out[i] = HitOf(matches[i])

\* C6: with a relative jsonl path the log scanned is the first existing candidate, in
\* the order metadata directory, absolute, as given; the passage-file-not-found entry
\* is returned exactly when no candidate exists
C6_ResolutionOrder ==
    (Done("grep") /\ ChosenPath.k = "path" /\ ~ChosenPath.p.abs) =>
        /\ ret.opened # <<>> => ret.opened = FirstExisting
        /\ (LogReadable /\ Compiles(call.query)) => ret.opened = FirstExisting
        /\ (ret.out = <<Err(E_PassageFileNotFound)>>) <=> (FirstExisting = <<>>)

C6_Witness ==
    /\ Done("grep")
    /\ FindMeta = 2
    /\ ChosenPath.k = "path" /\ ~ChosenPath.p.abs
    /\ ~OnDisk(Candidate1)
    /\ Resolve(Candidate1) # Resolve(Candidate3)
    /\ ret.opened = Resolve(Candidate3)
    /\ Len(ret.out) > 0

\* C7 as stated: an invalid pattern is reported as such whatever the state of the
\* metadata and of the log
C7_Original ==
    (Done("grep") /\ ~Compiles(call.query)) =>
        (ret.out = <<Err(E_InvalidRegex)>> /\ ret.read = 0)

\* C7 amended: an invalid pattern yields one error entry and no record is scanned; the
\* entry is the invalid-pattern one exactly when the metadata was read and the log
\* located (readable or not), else it is the error of that earlier step
C7_InvalidPatternAfterResolution ==
    (Done("grep") /\ ~Compiles(call.query)) =>
        /\ SingleError(ret.out)
        /\ ret.read = 0 /\ ret.opened = <<>>
        /\ (ret.out = <<Err(E_InvalidRegex)>>) <=> LogLocated

C7_Witness ==
    /\ Done("grep")
    /\ ~Compiles(call.query)
    /\ LogLocated /\ ~LogReadable
    /\ ret.out = <<Err(E_InvalidRegex)>>

MissingPassageLog == {E_MetaNotFound, E_NoJsonlSource, E_PassageFileNotFound}

\* C8: the empty list is returned exactly when the log was located and readable, the
\* pattern compiled and no record matched; missing metadata, a missing jsonl source or
\* a missing log file give one MissingPassageLog entry; unparsable lines are skipped
C8_EmptyIsNotFailure ==
    Done("grep") =>
        /\ (ret.out = <<>>) <=>
               (/\ LogReadable
                /\ Compiles(call.query)
                /\ MatchingLines(files[FirstExisting].lines, call.query) = <<>>)
        /\ ((\A l \in 1..3 : metaFiles[l].kind = "nofile") \/ ~LogLocated)
               /\ ChosenMeta.kind # "corrupt"
               => (SingleError(ret.out) /\ ret.out[1].error \in MissingPassageLog)
        /\ (LogReadable /\ Compiles(call.query)) =>
               /\ \A i \in 1..Len(ret.out) : ret.out[i].kind = "hit"
               /\ ret.read <= Len(files[FirstExisting].lines)
               /\ ret.out = Scan(SelectSeq(files[FirstExisting].lines,
                                           LAMBDA l : l.kind = "obj"),
                                 1, call.query, call.top_k, <<>>).results

C8_Witness ==
    /\ Done("grep")
    /\ ret.out = <<>>
    /\ ret.opened # <<>>
    /\ ret.read = 2
    /\ files[ret.opened].lines[1] = Garbage
    /\ files[ret.opened].lines[2].kind = "obj"

(***************************************************************************)
(* Properties of index_codebase                                            *)
(***************************************************************************)
EffectiveExtensions ==
    IF call.extensions = NoExtensions THEN DefaultExtensions ELSE call.extensions
EffectiveExcludeDirs ==
    IF call.exclude_dirs = NoExcludeDirs THEN DefaultExcludeDirs ELSE call.exclude_dirs

\* a regular file below the root that the filter lets through
Eligible(e) ==
    /\ e.kind = "file"
    /\ ~\E exc \in EffectiveExcludeDirs : InParts(exc, RelPath(e))
    /\ Suffix(e.name) \in EffectiveExtensions
    /\ ~e.faulty
    /\ ~StripIsEmpty(e.content)

\* C9 as stated: the builder receives one passage for exactly the eligible files
C9_Claim ==
    (Done("index") /\ rootKind = "dir" /\ ret.builderCreated) =>
        /\ { ret.added[i].file_path : i \in 1..Len(ret.added) }
               = { RelPath(e) : e \in { x \in tree : Eligible(x) } }
        /\ \A i, j \in 1..Len(ret.added) :
               ret.added[i].file_path = ret.added[j].file_path => i = j

\* C10 as stated: a root that is missing or is not a directory gives the path error
\* and nothing is built
C10_Claim ==
    (Done("index") /\ rootKind # "dir") =>
        /\ ret.error = E_PathDoesNotExist
        /\ ~ret.builderCreated
        /\ ~ret.buildAttempted
        /\ ret.added = <<>>

====
